---- MODULE Spec2Model ----
(***************************************************************************)
(* A model of fetch.py: the per-country map pipeline (process_country),    *)
(* the coordinator (main), the retrying request (get_request), the image   *)
(* download (download_map) and the two pure helpers find_image and         *)
(* guess_date, together with the Map table of the sqlite store.            *)
(*                                                                         *)
(* Text is modelled as a sequence of one-character strings, so that        *)
(* urlparse, the regular expressions and strptime are computed on the      *)
(* characters as the library computes them.                                *)
(***************************************************************************)
EXTENDS Integers, Sequences, FiniteSets, TLC

(***************************************************************************)
(* Text                                                                    *)
(***************************************************************************)

\* Python's None. Text is a sequence of one-character strings, so a
\* sequence holding a longer string is no text and stands for None.
None == <<"None">>

Letters ==
    {"a", "b", "c", "d", "e", "f", "g", "h", "i", "j", "k", "l", "m",
     "n", "o", "p", "q", "r", "s", "t", "u", "v", "w", "x", "y", "z",
     "A", "B", "C", "D", "E", "F", "G", "H", "I", "J", "K", "L", "M",
     "N", "O", "P", "Q", "R", "S", "T", "U", "V", "W", "X", "Y", "Z"}

Digits == {"0", "1", "2", "3", "4", "5", "6", "7", "8", "9"}

\* urllib.parse.scheme_chars
SchemeChars == Letters \cup Digits \cup {"+", "-", "."}

\* str.find over a set of characters, 1-based; 0 when there is none.
FirstIn(s, cs) ==
    LET I == {i \in 1..Len(s) : s[i] \in cs}
    IN  IF I = {} THEN 0 ELSE CHOOSE i \in I : \A j \in I : i <= j

\* s[i:] of Python, 1-based: the text from position i on.
From(s, i) == SubSeq(s, i, Len(s))

\* s[:i] of Python, 1-based: the text before position i.
Before(s, i) == SubSeq(s, 1, i - 1)

(***************************************************************************)
(* urlparse(url), as find_image and guess_date use it: the scheme is split *)
(* off at the first ":" when everything before it is a scheme, the netloc  *)
(* follows a leading "//" up to the first of "/?#", then the fragment is   *)
(* cut at the first "#" and the query at the first "?".                    *)
(***************************************************************************)
\* The last step: the query is cut off the path at the first "?" (q).
split_query(scheme, netloc, rest, fragment, q) ==
    [scheme |-> scheme, netloc |-> netloc,
     path |-> IF q = 0 THEN rest ELSE Before(rest, q),
     query |-> IF q = 0 THEN <<>> ELSE From(rest, q + 1),
     fragment |-> fragment]

\* The fragment is cut off at the first "#" (h).
split_fragment(scheme, netloc, rest, h) ==
    IF h = 0
    THEN split_query(scheme, netloc, rest, <<>>, FirstIn(rest, {"?"}))
    ELSE split_query(scheme, netloc, Before(rest, h), From(rest, h + 1),
                     FirstIn(Before(rest, h), {"?"}))

\* rest followed "//": the netloc ends before the first of "/?#" (d).
split_netloc_at(scheme, rest, d) ==
    IF d = 0
    THEN split_fragment(scheme, rest, <<>>, 0)
    ELSE split_fragment(scheme, Before(rest, d), From(rest, d),
                        FirstIn(From(rest, d), {"#"}))

split_netloc(scheme, rest) ==
    IF Len(rest) >= 2 /\ rest[1] = "/" /\ rest[2] = "/"
    THEN split_netloc_at(scheme, From(rest, 3), FirstIn(From(rest, 3), {"/", "?", "#"}))
    ELSE split_fragment(scheme, <<>>, rest, FirstIn(rest, {"#"}))

\* c is the place of the first ":".
split_scheme(url, c) ==
    IF c > 1 /\ url[1] \in Letters /\ \A k \in 1..(c - 1) : url[k] \in SchemeChars
    THEN split_netloc(Before(url, c), From(url, c + 1))
    ELSE split_netloc(<<>>, url)

urlparse(url) == split_scheme(url, FirstIn(url, {":"}))

(***************************************************************************)
(* find_image                                                              *)
(***************************************************************************)

\* soup.select(..) returned the empty list: the rule does not match.
NoMatch == <<"NoMatch">>

\* The rule matches but its element has no img child or no src/href
\* attribute: select[0].img["src"] raises TypeError or KeyError.
NoAttr == <<"NoAttr">>

\* find_image did not return: it raised.
Raised == <<"Raised">>

\* Lines 73-76: None for no value, else the netloc and path of the value.
netloc_path(p) == p.netloc \o p.path

strip_url(url) ==
    IF url = None \/ url = <<>> THEN None ELSE netloc_path(urlparse(url))

\* find_image with the first matching selector winning instead of the last.
find_image_first_wins(soup) ==
    IF soup.dl = NoAttr \/ soup.a = NoAttr \/ soup.fig = NoAttr
    THEN Raised
    ELSE strip_url(IF soup.dl # NoMatch THEN soup.dl
                   ELSE IF soup.a # NoMatch THEN soup.a
                   ELSE IF soup.fig # NoMatch THEN soup.fig
                   ELSE None)

\* A parsed page, as far as find_image reads it: for each of the three
\* selectors, NoMatch, NoAttr or the attribute value of the first match.
\*   dl  : dl.spip_documents   -> img src
\*   a   : a.spip_in.mediabox  -> href
\*   fig : figure.spip_documents -> img src
find_image(soup) ==
    IF soup.dl = NoAttr \/ soup.a = NoAttr \/ soup.fig = NoAttr
    THEN Raised
    ELSE LET url0 == None
             url1 == IF soup.dl # NoMatch THEN soup.dl ELSE url0
             url2 == IF soup.a # NoMatch THEN soup.a ELSE url1
             url3 == IF soup.fig # NoMatch THEN soup.fig ELSE url2
         IN  strip_url(url3)

(***************************************************************************)
(* guess_date                                                              *)
(***************************************************************************)

DigitVal(ch) ==
    CASE ch = "0" -> 0 [] ch = "1" -> 1 [] ch = "2" -> 2 [] ch = "3" -> 3
      [] ch = "4" -> 4 [] ch = "5" -> 5 [] ch = "6" -> 6 [] ch = "7" -> 7
      [] ch = "8" -> 8 [] ch = "9" -> 9

DigitChar(n) ==
    CASE n = 0 -> "0" [] n = 1 -> "1" [] n = 2 -> "2" [] n = 3 -> "3"
      [] n = 4 -> "4" [] n = 5 -> "5" [] n = 6 -> "6" [] n = 7 -> "7"
      [] n = 8 -> "8" [] n = 9 -> "9"

\* int(s) of a text of digits.
RECURSIVE IntOf(_)
IntOf(s) ==
    IF s = <<>> THEN 0
    ELSE 10 * IntOf(Before(s, Len(s))) + DigitVal(s[Len(s)])

\* str(n) of a natural number.
RECURSIVE StrOf(_)
StrOf(n) ==
    IF n < 10 THEN <<DigitChar(n)>>
    ELSE StrOf(n \div 10) \o <<DigitChar(n % 10)>>

\* n as two digits (strftime's %d, %m and %y).
TwoDigits(n) == <<DigitChar((n \div 10) % 10), DigitChar(n % 10)>>

\* os.path.basename(p): the text after the last "/".
basename(p) ==
    LET I == {i \in 1..Len(p) : p[i] = "/"}
    IN  IF I = {} THEN p
        ELSE From(p, 1 + CHOOSE i \in I : \A j \in I : j <= i)

\* Whether the text at position i of s has the shape of pat, where "d" in
\* pat stands for \d and any other character for itself.
ShapeAt(s, i, pat) ==
    /\ i + Len(pat) - 1 <= Len(s)
    /\ \A k \in 1..Len(pat) :
          IF pat[k] = "d" THEN s[i + k - 1] \in Digits
          ELSE s[i + k - 1] = pat[k]

\* re.findall(".*(pat).*", s): the leading .* is greedy, so the one match
\* captures the LAST place where pat fits; <<>> (no match) when none does.
findall(pat, s) ==
    LET I == {i \in 1..Len(s) : ShapeAt(s, i, pat)}
    IN  IF I = {} THEN <<>>
        ELSE LET i == CHOOSE i \in I : \A j \in I : j <= i
             IN  <<SubSeq(s, i, i + Len(pat) - 1)>>

IsLeap(y) == (y % 4 = 0 /\ y % 100 # 0) \/ y % 400 = 0

DaysInMonth(y, m) ==
    IF m = 2 THEN (IF IsLeap(y) THEN 29 ELSE 28)
    ELSE IF m \in {4, 6, 9, 11} THEN 30 ELSE 31

\* datetime.strptime did not return: it raised ValueError.
ValueError == [err |-> "ValueError"]

\* The datetime of year y, month m, day d, or ValueError when there is no
\* such day (datetime.MINYEAR is 1).
MkDate(y, m, d) ==
    IF y >= 1 /\ m \in 1..12 /\ d >= 1 /\ d <= DaysInMonth(y, m)
    THEN [y |-> y, m |-> m, d |-> d]
    ELSE ValueError

\* datetime.strptime(s, fmt) for the four formats guess_date uses, on a
\* text that has the format's shape (the regular expression saw to that).
\* %d and %m take two digits here: a one-digit reading leaves unconverted
\* text behind, which is a ValueError as well.
strptime(s, fmt) ==
    CASE fmt = "%d%m%Y" ->
           MkDate(IntOf(SubSeq(s, 5, 8)), IntOf(SubSeq(s, 3, 4)), IntOf(SubSeq(s, 1, 2)))
      [] fmt = "%Y%m%d" ->
           MkDate(IntOf(SubSeq(s, 1, 4)), IntOf(SubSeq(s, 5, 6)), IntOf(SubSeq(s, 7, 8)))
      [] fmt = "%d-%m-%Y" ->
           MkDate(IntOf(SubSeq(s, 7, 10)), IntOf(SubSeq(s, 4, 5)), IntOf(SubSeq(s, 1, 2)))
      [] fmt = "%d-%m-%y" ->
           LET yy == IntOf(SubSeq(s, 7, 8))
           IN  MkDate(IF yy <= 68 THEN 2000 + yy ELSE 1900 + yy,
                      IntOf(SubSeq(s, 4, 5)), IntOf(SubSeq(s, 1, 2)))

\* guess_from without the test of line 103: eight digits are always read
\* as %Y%m%d.
guess_from_always_Ymd(d8, d10, d6, now) ==
    IF d8 # <<>>
    THEN [date |-> strptime(d8[1], "%Y%m%d"), fallback |-> FALSE]
    ELSE IF d10 # <<>>
    THEN [date |-> strptime(d10[1], "%d-%m-%Y"), fallback |-> FALSE]
    ELSE IF d6 # <<>>
    THEN [date |-> strptime(d6[1], "%d-%m-%y"), fallback |-> FALSE]
    ELSE [date |-> now, fallback |-> TRUE]

\* Lines 101-119 on the filename, given what the three findall calls
\* return and the value datetime.now() would return: a date, or ValueError
\* when strptime raised; fallback tells whether line 117 logged its warning.
guess_from(d8, d10, d6, now) ==
    IF d8 # <<>>
    THEN [date |-> IF IntOf(SubSeq(d8[1], 1, 4)) < 2013
                   THEN strptime(d8[1], "%d%m%Y")
                   ELSE strptime(d8[1], "%Y%m%d"),
          fallback |-> FALSE]
    ELSE IF d10 # <<>>
    THEN [date |-> strptime(d10[1], "%d-%m-%Y"), fallback |-> FALSE]
    ELSE IF d6 # <<>>
    THEN [date |-> strptime(d6[1], "%d-%m-%y"), fallback |-> FALSE]
    ELSE [date |-> now, fallback |-> TRUE]

guess_in(filename, now) ==
    guess_from(findall(<<"d", "d", "d", "d", "d", "d", "d", "d">>, filename),
               findall(<<"d", "d", "-", "d", "d", "-", "d", "d", "d", "d">>, filename),
               findall(<<"d", "d", "-", "d", "d", "-", "d", "d">>, filename),
               now)

\* guess_date(m), given m.url and the value datetime.now() would return.
guess_date_full(url, now) == guess_in(basename(urlparse(url).path), now)

guess_date(url, now) == guess_date_full(url, now).date

\* date.strftime("%Y%m%d")
strftime_Ymd(date) == StrOf(date.y) \o TwoDigits(date.m) \o TwoDigits(date.d)

\* date.strftime("%d_%m_%y")
strftime_dmy(date) ==
    TwoDigits(date.d) \o <<"_">> \o TwoDigits(date.m) \o <<"_">> \o TwoDigits(date.y)

(***************************************************************************)
(* Bounds and the world outside the program                                *)
(***************************************************************************)

\* Number of rows of the Country table.
NumCountries == 2

\* Number of times the program is run on the same maps.db.
MaxRuns == 2

\* Number of chunks of an image body (r.body).
BodyChunks == 1

\* stop_after_attempt(3)
MaxAttempts == 3

\* The Country table (filled once by setup_db, then only read).
Countries == 1..NumCountries

country_id(c) == <<"k">> \o StrOf(c)

country_name(c) == <<"K">> \o StrOf(c)

\* Attribute values the site serves.
\*   "/a_20200102.jpg?5"
SrcA == <<"/", "a", "_", "2", "0", "2", "0", "0", "1", "0", "2", ".", "j", "p", "g", "?", "5">>
\*   "/b_02-01-2020.jpg"  (the same day as SrcA, written the other way)
SrcB == <<"/", "b", "_", "0", "2", "-", "0", "1", "-", "2", "0", "2", "0", ".", "j", "p", "g">>
\*   "/d_20201301.jpg"  (eight digits that are no date)
SrcD == <<"/", "d", "_", "2", "0", "2", "0", "1", "3", "0", "1", ".", "j", "p", "g">>
\*   "?5"  (a query and nothing else)
SrcE == <<"?", "5">>

Soup(dl, a, fig) == [dl |-> dl, a |-> a, fig |-> fig]

\* The pages a country's advisory URL may answer with in a run.
RunPages ==
    {Soup(NoMatch, NoMatch, NoMatch),
     Soup(SrcA, NoMatch, NoMatch),
     Soup(SrcA, NoMatch, SrcB),
     Soup(SrcD, NoMatch, NoMatch),
     Soup(NoMatch, SrcE, NoMatch),
     Soup(NoAttr, NoMatch, NoMatch)}

\* The day of the first run.
FirstDay == [y |-> 2020, m |-> 1, d |-> 2]

NextDay(t) ==
    IF t.d < DaysInMonth(t.y, t.m) THEN [t EXCEPT !.d = t.d + 1]
    ELSE IF t.m < 12 THEN [t EXCEPT !.m = t.m + 1, !.d = 1]
    ELSE [y |-> t.y + 1, m |-> 1, d |-> 1]

(***************************************************************************)
(* State                                                                   *)
(***************************************************************************)
VARIABLES
    maps,       \* the Map table: a sequence of rows, a row's id is its index
    files,      \* the files written: path -> [src, chunks]
    today,      \* the day of the run (datetime.now())
    run,        \* the number of the run
    base,       \* Len(maps) when the run started
    mainpc,     \* main: "idle", "nursery", "returned", "raised"
    cancelled,  \* the nursery's cancel scope has been cancelled
    grace,      \* tasks whose awaited operation had completed when the scope was cancelled
    pc,         \* process_country(c): where it waits, or how it ended
    att,        \* att[c]: attempts made so far by the call of get_request c is in
    err,        \* err[c]: the exception that ended c's pipeline, if any
    url,        \* url[c]: what find_image returned
    m,          \* m[c]: the Map instance c created: [id, date, filename]
    owner,      \* owner[c]: the country name c logged on a claim conflict
    failed,     \* ids of the rows whose download step failed
    written,    \* ids of the rows whose image came with status 200 and was written whole
    fiPage,     \* the input of find_image (specification SpecFind)
    fiResult,   \* its result
    gdName,     \* the filename guess_date works on (specification SpecDate)
    gdNow,      \* what datetime.now() returns during that call
    gdResult    \* its result: [date, fallback]

vars == <<maps, files, today, run, base, mainpc, cancelled, grace, pc, att,
          err, url, m, owner, failed, written, fiPage, fiResult,
          gdName, gdNow, gdResult>>

storeVars == <<maps, files, failed, written>>

findVars == <<fiPage, fiResult, gdName, gdNow, gdResult>>

dateVars == <<gdName, gdNow, gdResult>>

NoDate == [err |-> "None"]

NoInstance == [id |-> 0, date |-> NoDate, filename |-> None]

\* A task waits here (a checkpoint of trio).
Waiting == {"fetch", "dlreq", "open", "body"}

\* The outcomes process_country returns with.
Outcomes == {"NoImage", "Duplicate", "ClaimConflict", "Downloaded", "DownloadFailed"}

\* process_country left with an exception.
Crashes == {"FetchFailed", "ExtractFailed"}

\* process_country returned from line 147, or was ended by Cancelled.
Finished == Outcomes \cup Crashes \cup {"Cancelled", "CantFindMap"}

Pending == <<"Pending">>

FreshTasks ==
    /\ pc = [c \in Countries |-> "notstarted"]
    /\ att = [c \in Countries |-> 0]
    /\ err = [c \in Countries |-> "none"]
    /\ url = [c \in Countries |-> None]
    /\ m = [c \in Countries |-> NoInstance]
    /\ owner = [c \in Countries |-> None]
    /\ cancelled = FALSE
    /\ grace = {}

\* maps.db exists with its Country rows and no Map row; nothing is downloaded.
MainInit ==
    /\ maps = <<>>
    /\ files = <<>>
    /\ today = FirstDay
    /\ run = 1
    /\ base = 0
    /\ mainpc = "idle"
    /\ failed = {}
    /\ written = {}
    /\ FreshTasks

\* guess_date has not returned yet.
NoGuess == [pending |-> TRUE]

\* No call of guess_date on its own is under way.
NoDateCall ==
    /\ gdName = <<>>
    /\ gdNow = FirstDay
    /\ gdResult = NoGuess

\* No call of find_image on its own is under way.
NoFindCall ==
    /\ fiPage = Soup(NoMatch, NoMatch, NoMatch)
    /\ fiResult = Pending

Init ==
    /\ MainInit
    /\ NoFindCall
    /\ NoDateCall

(***************************************************************************)
(* The Map table                                                           *)
(***************************************************************************)

Rows == 1..Len(maps)

\* MapExists with the check of line 130 lost: the query finds nothing.
MapExistsNever(c, u) == FALSE

\* MapExists that counts only rows whose download was recorded.
MapExistsWithFile(c, u) ==
    \E i \in Rows : maps[i].country = c /\ maps[i].url = u /\ maps[i].filename # None

\* Map.select().where((Map.country == country) & (Map.url == url)).exists()
MapExists(c, u) == \E i \in Rows : maps[i].country = c /\ maps[i].url = u

\* UrlUnique with the unique constraint dropped from the url column.
UrlNotUnique(u) == TRUE

\* url = CharField(null=True, unique=True): whether a row with url u may be inserted.
UrlUnique(u) == \A i \in Rows : maps[i].url # u

\* FilenameUnique with the unique constraint dropped from the filename column.
FilenameNotUnique(id, fn) == TRUE

\* filename = CharField(null=True, unique=True): whether row id may take
\* filename fn (NULLs do not collide).
FilenameUnique(id, fn) == \A i \in Rows : i # id => maps[i].filename # fn

\* FirstWithUrl with the where clause lost: the first row of the table.
FirstOfAll(u) == 1

\* Map.select().where(Map.url == url).first()
FirstWithUrl(u) == CHOOSE i \in Rows : maps[i].url = u /\ \A j \in Rows : maps[j].url = u => i <= j

\* The row Map.create(country=country, url=url) inserts.
NewRow(c, u) == [country |-> c, url |-> u, filename |-> None, date |-> NoDate]

(***************************************************************************)
(* get_request: the outcome of the attempt after n attempts of this call   *)
(* have failed, given whether session.get succeeds.                        *)
(***************************************************************************)
get_request_one_more(n, ok) ==
    IF ok THEN "ok"
    ELSE IF n + 1 > MaxAttempts THEN "RetryError"
    ELSE "retry"

get_request(n, ok) ==
    IF ok THEN "ok"
    ELSE IF n + 1 >= MaxAttempts THEN "RetryError"
    ELSE "retry"

(***************************************************************************)
(* The nursery's cancel scope                                              *)
(***************************************************************************)

\* CanRun of a scope that never resumes a task once it is cancelled.
CanRunUncancelled(c) == ~cancelled

\* A task runs on from a checkpoint unless the scope is cancelled; a task
\* whose awaited operation had already completed when the scope was
\* cancelled runs on once more, to its next checkpoint.
CanRun(c) == ~cancelled \/ c \in grace

\* After a step of task c: when c left with an exception the nursery
\* cancels its scope, and every other waiting task is either woken with
\* Cancelled or had its operation completed already (grace).
Leave(c, crashed) ==
    IF crashed /\ ~cancelled
    THEN /\ cancelled' = TRUE
         /\ \E g \in SUBSET {d \in Countries \ {c} : pc[d] \in Waiting} : grace' = g
    ELSE /\ cancelled' = cancelled
         /\ grace' = grace \ {c}

(***************************************************************************)
(* main                                                                    *)
(***************************************************************************)

\* NurseryDone of a scope that waits for its first task only.
NurseryDoneFirst == \E c \in Countries : pc[c] \in Finished

\* The nursery block is left when every task started in it has finished.
NurseryDone == \A c \in Countries : pc[c] \in Finished

\* Lines 155-159: every country's task is started and runs to its first
\* await, the page request.
Main ==
    /\ mainpc = "idle"
    /\ mainpc' = "nursery"
    /\ pc' = [c \in Countries |-> "fetch"]
    /\ UNCHANGED <<storeVars, findVars, today, run, base, cancelled, grace, att,
                   err, url, m, owner>>

\* The end of the async with block: an exception of a task is raised on.
MainExit ==
    /\ mainpc = "nursery"
    /\ NurseryDone
    /\ mainpc' = IF \E c \in Countries : pc[c] \in Crashes THEN "raised" ELSE "returned"
    /\ UNCHANGED <<storeVars, findVars, today, run, base, cancelled, grace, pc,
                   att, err, url, m, owner>>

\* The program is run again, on the same day or the next, with the same
\* maps.db and the same directories.
NewRun ==
    /\ mainpc \in {"returned", "raised"}
    /\ run < MaxRuns
    /\ run' = run + 1
    /\ today' \in {today, NextDay(today)}
    /\ base' = Len(maps)
    /\ mainpc' = "idle"
    /\ pc' = [c \in Countries |-> "notstarted"]
    /\ att' = [c \in Countries |-> 0]
    /\ err' = [c \in Countries |-> "none"]
    /\ url' = [c \in Countries |-> None]
    /\ m' = [c \in Countries |-> NoInstance]
    /\ owner' = [c \in Countries |-> None]
    /\ cancelled' = FALSE
    /\ grace' = {}
    /\ UNCHANGED <<storeVars, findVars>>

(***************************************************************************)
(* process_country                                                         *)
(***************************************************************************)

Result(p, u, e, o, cr, d, f) ==
    [pc |-> p, url |-> u, err |-> e, owner |-> o, create |-> cr, date |-> d, filename |-> f]

\* Lines 134 and 140-147 with 85-91: the row is inserted; with no URL on
\* it line 147 logs and the task ends, else download_map runs to its
\* request with the date d that guess_date returned, or raises.
claim_and_download(c, u, d) ==
    IF u = None \/ u = <<>>
    THEN Result("CantFindMap", u, "none", None, TRUE, NoDate, None)
    ELSE IF d = ValueError
    THEN Result("DownloadFailed", u, "ValueError", None, TRUE, NoDate, None)
    ELSE Result("dlreq", u, "none", None, TRUE, d,
                country_id(c) \o <<"_">> \o strftime_Ymd(d) \o <<".", "j", "p", "g">>)

\* process_url with the row inserted before the test of line 127.
process_url_claim_first(c, u) ==
    IF u = Raised
    THEN Result("ExtractFailed", None, "TypeError", None, FALSE, NoDate, None)
    ELSE IF u = None \/ u = <<>>
    THEN Result("NoImage", u, "none", None, TRUE, NoDate, None)
    ELSE IF MapExists(c, u)
    THEN Result("Duplicate", u, "none", None, FALSE, NoDate, None)
    ELSE IF ~UrlUnique(u)
    THEN Result("ClaimConflict", u, "IntegrityError",
                country_name(maps[FirstWithUrl(u)].country), FALSE, NoDate, None)
    ELSE claim_and_download(c, u, guess_date(u, today))

\* process_url without the test of line 127: whatever find_image returned
\* is looked up and inserted (NULL urls do not collide).
process_url_untested(c, u) ==
    IF u = Raised
    THEN Result("ExtractFailed", None, "TypeError", None, FALSE, NoDate, None)
    ELSE IF MapExists(c, u) /\ u # None
    THEN Result("Duplicate", u, "none", None, FALSE, NoDate, None)
    ELSE IF ~UrlUnique(u) /\ u # None
    THEN Result("ClaimConflict", u, "IntegrityError",
                country_name(maps[FirstWithUrl(u)].country), FALSE, NoDate, None)
    ELSE claim_and_download(c, u, guess_date(u, today))

\* Lines 127-142 with u what find_image returned (or Raised).
process_url(c, u) ==
    IF u = Raised
    THEN Result("ExtractFailed", None, "TypeError", None, FALSE, NoDate, None)
    ELSE IF u = None \/ u = <<>>
    THEN Result("NoImage", u, "none", None, FALSE, NoDate, None)
    ELSE IF MapExists(c, u)
    THEN Result("Duplicate", u, "none", None, FALSE, NoDate, None)
    ELSE IF ~UrlUnique(u)
    THEN Result("ClaimConflict", u, "IntegrityError",
                country_name(maps[FirstWithUrl(u)].country), FALSE, NoDate, None)
    ELSE claim_and_download(c, u, guess_date(u, today))

\* Lines 125-138 and 140-142 with the head of download_map (lines 85-91),
\* on the page soup: where the task stands at its next await or how it
\* ended, and whether it inserted a row.
process_country(c, soup) == process_url(c, find_image(soup))

\* Line 124: an attempt of the page request fails.
FetchFail(c) ==
    LET r == get_request(att[c], FALSE)
    IN  /\ pc[c] = "fetch"
        /\ CanRun(c)
        /\ att' = [att EXCEPT ![c] = IF r = "RetryError" THEN 0 ELSE @ + 1]
        /\ pc' = [pc EXCEPT ![c] = IF r = "RetryError" THEN "FetchFailed" ELSE @]
        /\ err' = [err EXCEPT ![c] = IF r = "RetryError" THEN r ELSE @]
        /\ Leave(c, r = "RetryError")
        /\ UNCHANGED <<storeVars, findVars, today, run, base, mainpc, url, m, owner>>

\* Lines 124-142: the page request answers and the task runs to its next
\* await (the image request) or to its end.
Process(c) ==
    /\ pc[c] = "fetch"
    /\ CanRun(c)
    /\ get_request(att[c], TRUE) = "ok"
    /\ \E soup \in RunPages : \E o \in {process_country(c, soup)} :
        LET id == Len(maps) + 1
        IN  /\ att' = [att EXCEPT ![c] = 0]
            /\ pc' = [pc EXCEPT ![c] = o.pc]
            /\ url' = [url EXCEPT ![c] = o.url]
            /\ err' = [err EXCEPT ![c] = o.err]
            /\ owner' = [owner EXCEPT ![c] = o.owner]
            /\ maps' = IF o.create THEN Append(maps, NewRow(c, o.url)) ELSE maps
            /\ m' = [m EXCEPT ![c] = IF o.create
                                     THEN [id |-> id, date |-> o.date, filename |-> o.filename]
                                     ELSE @]
            /\ failed' = IF o.create /\ o.pc = "DownloadFailed" THEN failed \cup {id} ELSE failed
            /\ Leave(c, o.pc \in Crashes)
            /\ UNCHANGED <<files, written, findVars, today, run, base, mainpc>>

(***************************************************************************)
(* download_map and m.save()                                               *)
(***************************************************************************)

\* DOWNLOAD_DIR + "/" + m.filename
FilePath(c) == strftime_dmy(today) \o <<"/">> \o m[c].filename

\* Whether m.save() succeeds: the UPDATE trips over the unique filename or not.
save(c) == FilenameUnique(m[c].id, m[c].filename)

\* Saved, had download_map stored the address it requests in m.url.
SavedRequestUrl(c) ==
    [maps EXCEPT ![m[c].id].filename = m[c].filename, ![m[c].id].date = m[c].date,
                 ![m[c].id].url = <<"/">> \o @]

\* The table after a successful m.save().
Saved(c) ==
    [maps EXCEPT ![m[c].id].filename = m[c].filename, ![m[c].id].date = m[c].date]

\* Lines 143-145 after download_map returned: the outcome of m.save().
AfterDownload(c) ==
    /\ maps' = IF save(c) THEN Saved(c) ELSE maps
    /\ pc' = [pc EXCEPT ![c] = IF save(c) THEN "Downloaded" ELSE "DownloadFailed"]
    /\ err' = [err EXCEPT ![c] = IF save(c) THEN @ ELSE "IntegrityError"]
    /\ failed' = IF save(c) THEN failed ELSE failed \cup {m[c].id}

\* Caught with m.save() moved into a finally clause: the row is saved
\* whether or not the download failed.
CaughtThenSaved(c, e) ==
    /\ pc' = [pc EXCEPT ![c] = "DownloadFailed"]
    /\ err' = [err EXCEPT ![c] = e]
    /\ failed' = failed \cup {m[c].id}
    /\ maps' = Saved(c)

\* Lines 144-145: an exception e inside the try block.
Caught(c, e) ==
    /\ pc' = [pc EXCEPT ![c] = "DownloadFailed"]
    /\ err' = [err EXCEPT ![c] = e]
    /\ failed' = failed \cup {m[c].id}
    /\ maps' = maps

\* Line 91: an attempt of the image request fails.
DownloadFail(c) ==
    LET r == get_request(att[c], FALSE)
    IN  /\ pc[c] = "dlreq"
        /\ CanRun(c)
        /\ att' = [att EXCEPT ![c] = IF r = "RetryError" THEN 0 ELSE @ + 1]
        /\ IF r = "RetryError"
           THEN Caught(c, r)
           ELSE UNCHANGED <<pc, err, failed, maps>>
        /\ Leave(c, FALSE)
        /\ UNCHANGED <<files, written, findVars, today, run, base, mainpc, url, m, owner>>

\* Lines 91-92: the image request answers. With status 200 the task goes
\* on to open the file; with any other status download_map returns at once
\* and line 143 saves the row.
DownloadResponse(c) ==
    \E status \in {200, 404} :
        /\ pc[c] = "dlreq"
        /\ CanRun(c)
        /\ get_request(att[c], TRUE) = "ok"
        /\ att' = [att EXCEPT ![c] = 0]
        /\ IF status = 200
           THEN /\ pc' = [pc EXCEPT ![c] = "open"]
                /\ UNCHANGED <<err, failed, maps>>
           ELSE AfterDownload(c)
        /\ Leave(c, FALSE)
        /\ UNCHANGED <<files, written, findVars, today, run, base, mainpc, url, m, owner>>

\* Line 93: trio.open_file(path, 'wb') creates or truncates the file, or fails.
OpenFile(c) ==
    \E ok \in BOOLEAN :
        /\ pc[c] = "open"
        /\ CanRun(c)
        /\ IF ok
           THEN /\ files' = (FilePath(c) :> [src |-> url[c], chunks |-> 0]) @@ files
                /\ pc' = [pc EXCEPT ![c] = "body"]
                /\ UNCHANGED <<err, failed, maps>>
           ELSE /\ files' = files
                /\ Caught(c, "OSError")
        /\ Leave(c, FALSE)
        /\ UNCHANGED <<written, findVars, today, run, base, mainpc, att, url, m, owner>>

\* Lines 94-95 and 143: the next chunk of the body is received and
\* written, or one of the two fails. After the last chunk the file is
\* closed, download_map returns and the row is saved.
Chunk(c) ==
    \E ok \in BOOLEAN :
        LET p == FilePath(c)
            n == files[p].chunks + 1
        IN  /\ pc[c] = "body"
            /\ CanRun(c)
            /\ IF ~ok
               THEN /\ Caught(c, "IOError")
                    /\ UNCHANGED <<files, written>>
               ELSE /\ files' = [files EXCEPT ![p].chunks = n]
                    /\ IF n < BodyChunks
                       THEN UNCHANGED <<pc, err, failed, maps, written>>
                       ELSE /\ written' = written \cup {m[c].id}
                            /\ AfterDownload(c)
            /\ Leave(c, FALSE)
            /\ UNCHANGED <<findVars, today, run, base, mainpc, att, url, m, owner>>

\* The scope is cancelled and the task is woken with trio.Cancelled at its
\* checkpoint. At line 124 it leaves process_country (the nursery absorbs
\* it); inside the try block of line 141 the bare except catches it.
Deliver(c) ==
    /\ cancelled
    /\ c \notin grace
    /\ pc[c] \in Waiting
    /\ IF pc[c] = "fetch"
       THEN /\ pc' = [pc EXCEPT ![c] = "Cancelled"]
            /\ err' = [err EXCEPT ![c] = "Cancelled"]
            /\ UNCHANGED <<failed, maps>>
       ELSE Caught(c, "Cancelled")
    /\ att' = [att EXCEPT ![c] = 0]
    /\ UNCHANGED <<files, written, findVars, today, run, base, mainpc, cancelled,
                   grace, url, m, owner>>

Next ==
    \/ Main
    \/ MainExit
    \/ NewRun
    \/ \E c \in Countries : FetchFail(c)
    \/ \E c \in Countries : Process(c)
    \/ \E c \in Countries : DownloadFail(c)
    \/ \E c \in Countries : DownloadResponse(c)
    \/ \E c \in Countries : OpenFile(c)
    \/ \E c \in Countries : Chunk(c)
    \/ \E c \in Countries : Deliver(c)

Spec == Init /\ [][Next]_vars

\* One step of the task of country c: the operation it awaits returns,
\* with success or failure, or it is woken with Cancelled.
Task(c) ==
    \/ FetchFail(c)
    \/ Process(c)
    \/ DownloadFail(c)
    \/ DownloadResponse(c)
    \/ OpenFile(c)
    \/ Chunk(c)
    \/ Deliver(c)

\* trio runs every task that can run, and every awaited request, open and
\* write returns: main and each task take their next step in the end.
\* Whether the program is run again is left open.
Fairness ==
    /\ WF_vars(Main)
    /\ WF_vars(MainExit)
    /\ \A c \in Countries : WF_vars(Task(c))

LiveSpec == Spec /\ Fairness

(***************************************************************************)
(* find_image applied to every page of a bounded set                       *)
(***************************************************************************)

\* Longest attribute value tried.
MaxValLen == 4

\* The characters urlparse tells apart, and one that it does not.
ValChars == {"a", "/", "?", "#", ":"}

RECURSIVE TextsUpTo(_)
TextsUpTo(n) ==
    IF n = 0 THEN {<<>>}
    ELSE LET P == TextsUpTo(n - 1)
         IN  P \cup {Append(s, ch) : s \in P, ch \in ValChars}

Values == TextsUpTo(MaxValLen)

\* What the other two selectors find beside the one that carries the value.
OtherFinds == {NoMatch, NoAttr, <<>>, <<"b">>}

\* Every page in which one selector finds any of Values (or, the first one,
\* nothing) and the other two find one of OtherFinds.
InitFind ==
    /\ MainInit
    /\ \E v \in Values \cup {NoMatch, NoAttr}, x \in OtherFinds, y \in OtherFinds :
          fiPage \in {Soup(v, x, y), Soup(x, v, y), Soup(x, y, v)}
    /\ fiResult = Pending
    /\ NoDateCall

ApplyFindImage ==
    /\ fiResult = Pending
    /\ fiResult' = find_image(fiPage)
    /\ UNCHANGED <<storeVars, today, run, base, mainpc, cancelled, grace, pc, att,
                   err, url, m, owner, fiPage, dateVars>>

NextFind == ApplyFindImage

SpecFind == InitFind /\ [][NextFind]_vars

(***************************************************************************)
(* guess_date applied to every filename of a bounded set                   *)
(***************************************************************************)

\* Most pieces a filename is put together from.
MaxPieces == 3

\* The pieces: text that fits none of the patterns, digits, and texts that
\* fit a pattern and are, or are not, a day of the calendar.
\*   "20210315"  "05122007"  "20201301"  "15-03-2021"  "15-03-21"  "00-01-20"
NamePieces ==
    {<<"r">>, <<"-">>, <<"1">>, <<"2", "0">>,
     <<"2", "0", "2", "1", "0", "3", "1", "5">>,
     <<"0", "5", "1", "2", "2", "0", "0", "7">>,
     <<"2", "0", "2", "0", "1", "3", "0", "1">>,
     <<"1", "5", "-", "0", "3", "-", "2", "0", "2", "1">>,
     <<"1", "5", "-", "0", "3", "-", "2", "1">>,
     <<"0", "0", "-", "0", "1", "-", "2", "0">>}

RECURSIVE NamesUpTo(_)
NamesUpTo(n) ==
    IF n = 0 THEN {<<>>}
    ELSE LET P == NamesUpTo(n - 1)
         IN  P \cup {s \o piece : s \in P, piece \in NamePieces}

InitDate ==
    /\ MainInit
    /\ NoFindCall
    /\ gdName \in NamesUpTo(MaxPieces)
    /\ gdNow \in {FirstDay, NextDay(FirstDay)}
    /\ gdResult = NoGuess

ApplyGuessDate ==
    /\ gdResult = NoGuess
    /\ gdResult' = guess_in(gdName, gdNow)
    /\ UNCHANGED <<storeVars, today, run, base, mainpc, cancelled, grace, pc, att,
                   err, url, m, owner, fiPage, fiResult, gdName, gdNow>>

NextDate == ApplyGuessDate

SpecDate == InitDate /\ [][NextDate]_vars

(***************************************************************************)
(* Properties                                                              *)
(***************************************************************************)

\* A text find_image can return as a URL: neither None nor empty.
IsUrl(u) == u # None /\ u # <<>>

\* The tasks of this run that got u from find_image.
Extracted(u) == {c \in Countries : url[c] = u}

\* The tasks of this run that inserted a row.
Claimed == {c \in Countries : m[c].id # 0}

\* C1: the failure of one country's processor never aborts or cancels
\* another one, and no failure propagates out of the coordinator. Stated
\* for the first failure the claim names: when a country's page request
\* has failed after all its attempts, no other processor is ended by a
\* cancellation and main does not raise.
C1_FailuresStayLocal ==
    \A c \in Countries :
        pc[c] = "FetchFailed" =>
            /\ mainpc # "raised"
            /\ \A d \in Countries \ {c} : pc[d] # "Cancelled" /\ err[d] # "Cancelled"

\* C2: no two Map rows have the same source URL.
C2_UrlUniqueInStore ==
    \A i \in Rows : \A j \in Rows :
        (i # j /\ maps[i].url # None) => maps[i].url # maps[j].url

\* C2's case: a second country asked for a URL that has a row, and was refused.
C2_Witness ==
    \E c \in Countries :
        /\ pc[c] = "ClaimConflict"
        /\ \E i \in Rows : maps[i].url = url[c] /\ maps[i].country # c

\* C3: of the processors of a run that extract the same URL, not in the
\* store when the run started, exactly one creates the row; each other one
\* ends in ClaimConflict, has logged the name of the country that owns the
\* row, has created no row and has not entered the download.
C3_OneClaimWins ==
    \A c \in Countries :
        (IsUrl(url[c]) /\ \A i \in 1..base : maps[i].url # url[c]) =>
            LET E == Extracted(url[c])
                W == E \cap Claimed
            IN  /\ Cardinality(W) = 1
                /\ \A w \in W : \A d \in E \ W :
                      /\ pc[d] = "ClaimConflict"
                      /\ owner[d] = country_name(w)
                      /\ maps[m[w].id].country = w
                      /\ m[d] = NoInstance

\* C3's case: two countries extracted the same new URL, one has the row
\* and the other one the conflict, in a run that started with rows in the
\* store.
C3_Witness ==
    \E c \in Countries : \E d \in Countries \ {c} :
        /\ IsUrl(url[c])
        /\ url[c] = url[d]
        /\ m[c].id > base
        /\ pc[d] = "ClaimConflict"
        /\ base > 0

\* C4: a processor whose page yields a URL that already has a row of its
\* own country ends in Duplicate in that step, which changes neither the
\* Map table nor any file and starts no download.
C4_DuplicateChangesNothing ==
    [][\A c \in Countries :
          (/\ pc[c] = "fetch"
           /\ IsUrl(url'[c])
           /\ \E i \in Rows : maps[i].country = c /\ maps[i].url = url'[c]) =>
              /\ pc'[c] = "Duplicate"
              /\ maps' = maps
              /\ files' = files
              /\ m'[c] = NoInstance]_vars

\* C4's case: a country is processed again and its page yields the URL of
\* its row.
C4_Witness ==
    \E c \in Countries :
        /\ pc[c] = "Duplicate"
        /\ \E i \in 1..base : maps[i].country = c /\ maps[i].url = url[c]

\* C5: the row of a download that failed keeps path and date unset, and
\* there is no second row for its country and URL.
C5_FailedDownloadStaysDangling ==
    \A i \in failed :
        /\ i \in Rows
        /\ maps[i].filename = None
        /\ maps[i].date = NoDate
        /\ \A j \in Rows :
              (maps[j].country = maps[i].country /\ maps[j].url = maps[i].url) => j = i

\* C5's case: a later run finds on a country's page the URL of its row
\* whose download failed, and ends in Duplicate; in that run the download
\* of another country fails while its body is streamed to the file.
C5_Witness ==
    \E c \in Countries : \E i \in failed :
        /\ i <= base
        /\ maps[i].country = c
        /\ maps[i].url = url[c]
        /\ pc[c] = "Duplicate"
        /\ \E d \in Claimed :
              /\ err[d] = "IOError"
              /\ m[d].id \in failed
              /\ FilePath(d) \in DOMAIN files

\* C6: a row has its path and date set only if its image request was
\* answered with success and the whole body was written to its file.
C6_PathOnlyAfterDownload ==
    \A i \in Rows :
        (maps[i].filename # None \/ maps[i].date # NoDate) => i \in written

\* C7: no two Map rows have the same path, and a processor whose derived
\* filename is the path of another row does not get it onto its own row.
C7_FilenameUniqueInStore ==
    /\ \A i \in Rows : \A j \in Rows :
          (i # j /\ maps[i].filename # None) => maps[i].filename # maps[j].filename
    /\ \A c \in Claimed :
          (\E j \in Rows \ {m[c].id} : maps[j].filename = m[c].filename /\ m[c].filename # None)
              => maps[m[c].id].filename = None

\* C7's case: a download was written whole under a filename that an older
\* row has, and saving the row was refused.
C7_Witness ==
    \E c \in Claimed :
        /\ pc[c] = "DownloadFailed"
        /\ err[c] = "IntegrityError"
        /\ m[c].id \in written
        /\ \E j \in 1..base : maps[j].filename = m[c].filename

\* C8: a call of get_request makes at most MaxAttempts attempts (while it
\* runs, fewer have failed), it signals failure only in the step in which
\* its attempt number MaxAttempts fails, and when an attempt succeeds the
\* call is over.
C8_AtMostThreeAttempts ==
    /\ [](\A c \in Countries : att[c] < MaxAttempts /\ (att[c] > 0 => pc[c] \in {"fetch", "dlreq"}))
    /\ [][\A c \in Countries :
            /\ (err'[c] = "RetryError" /\ err[c] # "RetryError") => att[c] = MaxAttempts - 1
            /\ (pc[c] \in {"fetch", "dlreq"} /\ att'[c] # att[c]) =>
                  \/ att'[c] = att[c] + 1 /\ pc'[c] = pc[c]
                  \/ att'[c] = 0]_vars

\* C8's case: one call failed after its third attempt, another one got its
\* response at the third attempt.
C8_Witness ==
    \E c \in Countries : \E d \in Countries :
        /\ pc[c] = "FetchFailed"
        /\ err[c] = "RetryError"
        /\ att[d] = MaxAttempts - 1
        /\ pc[d] = "dlreq"

\* C9: main starts a processor for every country, and it has left the
\* nursery only when every processor has finished; when main has returned
\* every processor ended in one of its outcomes.
C9_RunEndsAfterAllProcessors ==
    /\ mainpc # "idle" => \A c \in Countries : pc[c] # "notstarted"
    /\ mainpc \in {"returned", "raised"} => \A c \in Countries : pc[c] \in Finished
    /\ mainpc = "returned" => \A c \in Countries : pc[c] \in Outcomes

\* C9's case: main has returned after one processor downloaded its map and
\* another one failed to.
C9_Witness ==
    /\ mainpc = "returned"
    /\ \E c \in Countries : pc[c] = "Downloaded"
    /\ \E c \in Countries : pc[c] = "DownloadFailed"

\* The value of the last of the three selectors that matches, in the order
\* dl, a, figure; NoMatch when none matches.
LastMatch(soup) ==
    IF soup.fig # NoMatch THEN soup.fig
    ELSE IF soup.a # NoMatch THEN soup.a
    ELSE soup.dl

\* Every selector that matches carries a value.
HasValues(soup) == NoAttr \notin {soup.dl, soup.a, soup.fig}

\* v without its query and fragment: cut at the first "?" or "#".
StripQueryFragment(v) ==
    LET i == FirstIn(v, {"?", "#"})
    IN  IF i = 0 THEN v ELSE Before(v, i)

\* s without a leading scheme and its colon.
DropScheme(s) ==
    LET I == {i \in 2..Len(s) :
                 /\ s[i] = ":"
                 /\ s[1] \in Letters
                 /\ \A k \in 1..(i - 1) : s[k] \in SchemeChars}
    IN  IF I = {} THEN s ELSE From(s, 1 + CHOOSE i \in I : TRUE)

\* s without a leading "//".
DropSlashes(s) ==
    IF Len(s) >= 2 /\ s[1] = "/" /\ s[2] = "/" THEN From(s, 3) ELSE s

EightDigits == <<"d", "d", "d", "d", "d", "d", "d", "d">>

DayMonthYear4 == <<"d", "d", "-", "d", "d", "-", "d", "d", "d", "d">>

DayMonthYear2 == <<"d", "d", "-", "d", "d", "-", "d", "d">>

\* The parts of s that have the shape pat.
Occurrences(pat, s) ==
    {SubSeq(s, i, i + Len(pat) - 1) : i \in {j \in 1..Len(s) : ShapeAt(s, j, pat)}}

\* Eight digits read as YYYYMMDD, unless the first four are a number below
\* 2013: then as DDMMYYYY.
ReadEight(t) ==
    IF IntOf(SubSeq(t, 1, 4)) < 2013 THEN strptime(t, "%d%m%Y") ELSE strptime(t, "%Y%m%d")

\* C11: guess_date tries eight digits, then DD-MM-YYYY, then DD-MM-YY, and
\* the first shape the filename has a part of decides: eight digits are
\* read as YYYYMMDD, or as DDMMYYYY when their first four digits are a
\* number below 2013; with no such part the result is the current day and
\* the fallback is signalled. (A part that is no day of the calendar is
\* read as ValueError here; whether that may happen is C12.)
C11_FirstPatternDecides ==
    gdResult # NoGuess =>
        IF Occurrences(EightDigits, gdName) # {}
        THEN /\ ~gdResult.fallback
             /\ \E t \in Occurrences(EightDigits, gdName) : gdResult.date = ReadEight(t)
        ELSE IF Occurrences(DayMonthYear4, gdName) # {}
        THEN /\ ~gdResult.fallback
             /\ \E t \in Occurrences(DayMonthYear4, gdName) :
                   gdResult.date = strptime(t, "%d-%m-%Y")
        ELSE IF Occurrences(DayMonthYear2, gdName) # {}
        THEN /\ ~gdResult.fallback
             /\ \E t \in Occurrences(DayMonthYear2, gdName) :
                   gdResult.date = strptime(t, "%d-%m-%y")
        ELSE /\ gdResult.fallback
             /\ gdResult.date = gdNow

\* C11's case: "05122007-15-03-2021" has eight digits whose first four
\* are a number below 2013, and a DD-MM-YYYY part as well; the result is
\* 5 December 2007.
C11_Witness ==
    /\ gdName = <<"0", "5", "1", "2", "2", "0", "0", "7", "-",
                  "1", "5", "-", "0", "3", "-", "2", "0", "2", "1">>
    /\ gdResult = [date |-> [y |-> 2007, m |-> 12, d |-> 5], fallback |-> FALSE]

\* C12: guess_date never raises: a part of the filename that has the shape
\* of a pattern but is no day of the calendar makes it go on to the next
\* pattern or to the current day.
C12_NeverRaises ==
    gdResult # NoGuess => gdResult.date # ValueError

\* Where a processor is that has not got past its page request or has
\* ended with FetchFailed or NoImage.
NoUrlYet == {"notstarted", "fetch", "FetchFailed", "NoImage"}

\* The rows of country c, by id.
RowsOf(tbl, c) == {i \in 1..Len(tbl) : tbl[i].country = c}

\* C13: a processor whose page request fails after all its attempts, or
\* whose page yields no URL, stops without a Map row of its country being
\* created or modified in the run: from the start of the run to its end in
\* FetchFailed or NoImage, every step leaves the rows of its country as
\* they are, and the processor holds no Map instance.
C13_NoUrlNoStoreChange ==
    [][\A c \in Countries :
          (pc[c] \in NoUrlYet /\ pc'[c] \in NoUrlYet) =>
              /\ RowsOf(maps', c) = RowsOf(maps, c)
              /\ \A i \in RowsOf(maps, c) : maps'[i] = maps[i]
              /\ m'[c] = NoInstance]_vars

\* C13's case: in a run that started with a row of each country, one
\* processor ended in FetchFailed and another one in NoImage.
C13_Witness ==
    \E c \in Countries : \E d \in Countries :
        /\ pc[c] = "FetchFailed"
        /\ pc[d] = "NoImage"
        /\ RowsOf(maps, c) # {}
        /\ RowsOf(maps, d) # {}

\* The rows left by earlier runs with neither path nor date.
Dangling == {i \in 1..base : maps[i].filename = None /\ maps[i].date = NoDate}

\* Where a processor is while download_map runs.
Downloading == {"dlreq", "open", "body"}

\* C14: a row that an earlier run left dangling stays as it is, and a
\* processor whose page yields the URL of a dangling row of its country
\* ends in Duplicate in that step, with no Map instance, no request for
\* the image and no file written.
C14_DanglingNeverRetried ==
    [][\A i \in Dangling :
          /\ maps'[i] = maps[i]
          /\ \A c \in Countries :
                (pc[c] = "fetch" /\ maps[i].country = c /\ url'[c] = maps[i].url) =>
                    /\ pc'[c] = "Duplicate"
                    /\ m'[c] = NoInstance
                    /\ files' = files
                    /\ Len(maps') = Len(maps)]_vars

\* C14's case: a run has ended in which a country's page yielded the URL
\* of the row an earlier run left dangling, and the row is still dangling.
C14_Witness ==
    \E c \in Countries : \E i \in Dangling :
        /\ maps[i].country = c
        /\ url[c] = maps[i].url
        /\ pc[c] = "Duplicate"
        /\ mainpc = "returned"

\* C15: no step removes a Map row or changes the country or URL of one;
\* a row is written only by the processor that created it in this run, in
\* the step that ends it in Downloaded, and the write sets the path and
\* date of a row that had neither (so at most once). The Country table is
\* read only: Countries is the same in every state.
C15_RowsOnlyFinalizedOnce ==
    [][/\ Len(maps') >= Len(maps)
       /\ \A i \in Rows :
             /\ maps'[i].country = maps[i].country
             /\ maps'[i].url = maps[i].url
             /\ maps'[i] # maps[i] =>
                   \E c \in Countries :
                       /\ m[c].id = i
                       /\ i > base
                       /\ maps[i].country = c
                       /\ pc[c] \in Downloading
                       /\ pc'[c] = "Downloaded"
                       /\ maps[i].filename = None
                       /\ maps[i].date = NoDate
                       /\ maps'[i].filename = m[c].filename
                       /\ maps'[i].filename # None
                       /\ maps'[i].date = m[c].date]_vars

\* C15's case: a processor has attached path and date to the row it
\* created, in a run that started with a row that had its path already.
C15_Witness ==
    \E c \in Claimed :
        /\ pc[c] = "Downloaded"
        /\ maps[m[c].id].filename = m[c].filename
        /\ maps[m[c].id].country = c
        /\ \E j \in 1..base : maps[j].filename # None

\* C16: when every awaited operation returns and every task is run, each
\* run that is started ends, with every processor finished (in one of its
\* outcomes, by an exception of its own or by cancellation).
C16_EveryRunEnds ==
    \A r \in 1..MaxRuns :
        (run = r /\ mainpc \in {"idle", "nursery"}) ~>
            (/\ run = r
             /\ mainpc \in {"returned", "raised"}
             /\ \A c \in Countries : pc[c] \in Finished)

\* C16's case: a run has ended in which one request failed at every
\* attempt and a download went through all its steps.
C16_Witness ==
    /\ mainpc \in {"returned", "raised"}
    /\ \E c \in Countries : err[c] = "RetryError"
    /\ \E c \in Countries : pc[c] = "Downloaded" /\ m[c].id \in written

\* The processor has called download_map on the row it created.
Started(c) == m[c].id # 0

\* The outcomes that end a processor before Map.create succeeded.
Quiet == {"NoImage", "Duplicate", "ClaimConflict"}

\* C17: in a run no two processors start a download of the same URL; a
\* processor is in its download only with the row it created itself in
\* this run for the URL it extracted; a processor that ended in NoImage,
\* Duplicate or ClaimConflict has started none; and a file is written
\* only in a step of a processor that is in its download.
C17_OneDownloadPerUrl ==
    /\ [](/\ \A c \in Countries : \A d \in Countries \ {c} :
              (Started(c) /\ Started(d)) => url[c] # url[d]
          /\ \A c \in Countries :
              /\ (pc[c] \in Downloading \cup {"Downloaded", "DownloadFailed"}) =>
                    (/\ Started(c)
                     /\ m[c].id > base
                     /\ maps[m[c].id].country = c
                     /\ maps[m[c].id].url = url[c])
              /\ (pc[c] \in Quiet) => ~Started(c))
    /\ [][/\ \A c \in Countries :
              (pc'[c] = "dlreq" /\ pc[c] # "dlreq") =>
                  (/\ pc[c] = "fetch"
                   /\ maps' = Append(maps, NewRow(c, url'[c]))
                   /\ m'[c].id = Len(maps'))
          /\ (files' # files) =>
                \E c \in Countries :
                    /\ pc[c] \in {"open", "body"}
                    /\ Started(c)
                    /\ DOMAIN files' = DOMAIN files \cup {FilePath(c)}
                    /\ \A q \in DOMAIN files \ {FilePath(c)} : files'[q] = files[q]]_vars

\* C17's case: two countries extracted the same URL; the one that created
\* the row downloaded it to a file, the other one ended in ClaimConflict.
C17_Witness ==
    \E c \in Countries : \E d \in Countries \ {c} :
        /\ IsUrl(url[c])
        /\ url[c] = url[d]
        /\ pc[c] = "Downloaded"
        /\ FilePath(c) \in DOMAIN files
        /\ files[FilePath(c)].src = url[c]
        /\ pc[d] = "ClaimConflict"

\* The rows that have their path.
Finalized == {i \in Rows : maps[i].filename # None}

\* The files that hold the image of row i: named as the row's path says,
\* in the directory of some run, with the content served for its URL.
FilesOf(i) ==
    {p \in DOMAIN files : basename(p) = maps[i].filename /\ files[p].src = maps[i].url}

\* C18: a file that holds the image of a finalized row is never written
\* again: no step changes its content.
C18_FinalizedFileUntouched ==
    [][\A i \in Finalized : \A p \in FilesOf(i) :
          /\ p \in DOMAIN files'
          /\ files'[p] = files[p]]_vars

\* C19: no Map row has an absent or empty URL, and no processor reaches
\* the branch of line 147 ("Can't find map").
C19_NoRowWithoutUrl ==
    /\ \A i \in Rows : IsUrl(maps[i].url)
    /\ \A c \in Countries : pc[c] # "CantFindMap"
    /\ \A c \in Countries : Started(c) => IsUrl(url[c])

\* C19's case: find_image returned the empty text for one country (its
\* page carried a value that is a query only) and ended in NoImage, with
\* no row of its own, while another country's claim is left dangling.
C19_Witness ==
    \E c \in Countries : \E d \in Countries \ {c} :
        /\ pc[c] = "NoImage"
        /\ url[c] = <<>>
        /\ RowsOf(maps, c) = {}
        /\ pc[d] = "DownloadFailed"
        /\ maps[m[d].id].filename = None

====
